---- MODULE Spec2Model ----
(***************************************************************************)
(* generate_flightlog_wca.py: images of a survey dive are matched by time  *)
(* with the rows of a telemetry TSV file and written to a flight log.      *)
(*                                                                         *)
(* The source file holds an unresolved merge: every conflict region has a  *)
(* HEAD side and a "parent of 522c19c" side.  The variable side says which *)
(* side the regions are resolved to; both resolutions are modelled.        *)
(*                                                                         *)
(* Python values are tagged records [k, v]:                                *)
(*   num     an int/float/datetime (datetimes are whole seconds)           *)
(*   str     a non-empty text cell; v is the number its text spells        *)
(*   empty   the empty string ""                                           *)
(*   none    None                                                          *)
(*   na      the text "N/A"                                                *)
(*   missing the key is not in the dict                                    *)
(*   raise   an exception left the expression                              *)
(***************************************************************************)
EXTENDS Integers, Sequences, FiniteSets, TLC

VARIABLES side, pc, data_type, utm_zone, coordinate_system, tsv_file,
          image_files, data_rows, image_data, closest_match, reported,
          flight_log, kml_file

vars == <<side, pc, data_type, utm_zone, coordinate_system, tsv_file,
          image_files, data_rows, image_data, closest_match, reported,
          flight_log, kml_file>>

\* ---------------------------------------------------------------- bounds
MaxTime == 3
MaxRows == 2
MaxImages == 2
MaxFiles == 2
MaxTsvRows == 2

\* ------------------------------------------------------- python values
Num(n) == [k |-> "num", v |-> n]
Str(n) == [k |-> "str", v |-> n]
Empty == [k |-> "empty", v |-> 0]
None == [k |-> "none", v |-> 0]
Missing == [k |-> "missing", v |-> 0]
Raise == [k |-> "raise", v |-> 0]
\* the text "N/A"
NA == [k |-> "na", v |-> 0]

Abs(n) == IF n < 0 THEN -n ELSE n

\* dict.get(key): None when the key is not in the dict
Get(d, key) == IF d[key].k = "missing" THEN None ELSE d[key]

\* dict.get(key, default)
GetDefault(d, key, default) == IF d[key].k = "missing" THEN default ELSE d[key]

\* a - b where abs(a - b) was meant
AbsDiffSigned(a, b) ==
    IF a.k = "num" /\ b.k = "num" THEN Num(a.v - b.v) ELSE Raise

\* abs(a - b): defined between numbers (datetimes) only; str - datetime and
\* None - datetime raise TypeError, a missing key raises KeyError
AbsDiff(a, b) ==
    IF a.k = "num" /\ b.k = "num" THEN Num(Abs(a.v - b.v)) ELSE Raise

\* a + b with a an int: int + str and int + None raise TypeError
Add(a, b) ==
    IF a.k = "num" /\ b.k = "num" THEN Num(a.v + b.v) ELSE Raise

\* truth value of an object: None, 0 and "" are false
Truthy(x) ==
    CASE x.k = "num" -> x.v # 0
      [] x.k = "str" -> TRUE
      [] OTHER -> FALSE

\* str(x): a number and a text cell spelling it print the same characters
PyStr(x) ==
    CASE x.k = "num" -> [s |-> "digits", n |-> x.v]
      [] x.k = "str" -> [s |-> "digits", n |-> x.v]
      [] x.k = "none" -> [s |-> "None", n |-> 0]
      [] x.k = "na" -> [s |-> "N/A", n |-> 0]
      [] OTHER -> [s |-> "", n |-> 0]

Word(w) == [s |-> w, n |-> 0]

\* ----------------------------------------------------------- file names
\* A file name is the sequence of its "_"-separated segments, which is what
\* filename.split("_") returns.  Segment texts:
\*   P, C     "P211C7655", "C211C7655": camera prefix, letters and digits
\*   D14      fourteen digits YYYYMMDDHHMMSS spelling second t
\*   D14x     fourteen digits followed by ".jpg"
\*   ISO      "YYYYMMDDTHHMMSSZ"
\*   D8       eight digits "20231102"
\*   D8x      eight digits followed by ".jpg"
\*   X        "0008.png": other text
Seg(kind, t) == [kind |-> kind, t |-> t]

Split(filename) == filename

\* s[:14]
First14(seg) ==
    IF seg.kind = "D14x" THEN Seg("D14", seg.t) ELSE seg

\* s.replace('T', '').replace('Z', '')
StripTZ(seg) ==
    IF seg.kind = "ISO" THEN Seg("D14", seg.t) ELSE seg

\* s.isdigit()
IsDigit(seg) == seg.kind \in {"D14", "D8"}

\* datetime.strptime(s, "%Y%m%d%H%M%S"): ValueError unless the whole text is
\* a fourteen-digit timestamp
Strptime(seg) ==
    IF seg.kind = "D14" THEN Num(seg.t) ELSE Raise

\* filename.startswith("P")
StartsWithP(filename) == filename[1].kind = "P"

\* ------------------------------------------------- timestamps of images
\* The outcome of one call: the value returned (Raise: an exception other
\* than ValueError left the function) and whether the error line was printed.
Outcome(value, printed) == [value |-> value, printed |-> printed]

\* strptime inside the try: a ValueError is caught, reported, and None returned
TryStrptime(seg) ==
    IF Strptime(seg).k = "raise" THEN Outcome(None, TRUE)
    ELSE Outcome(Strptime(seg), FALSE)

\* HEAD side: the timestamp is the first segment, when there is a second
\* segment and the first is all digits; otherwise None without a message
ParseTimestampHead(filename) ==
    LET parts == Split(filename) IN
    IF Len(parts) > 1 /\ IsDigit(parts[1])
    THEN TryStrptime(parts[1])
    ELSE Outcome(None, FALSE)

\* parent side: WCA reads parts[1][:14], an IndexError when the name has no
\* "_" (only ValueError is caught); Zeuss reads the first segment without
\* its 'T' and 'Z'
ParseTimestampParent(filename, dtype) ==
    LET parts == Split(filename) IN
    IF dtype = "WCA"
    THEN IF Len(parts) < 2 THEN Outcome(Raise, FALSE)
         ELSE TryStrptime(First14(parts[2]))
    ELSE TryStrptime(StripTZ(parts[1]))

parse_timestamp_from_filename(s, filename, dtype) ==
    IF s = "HEAD" THEN ParseTimestampHead(filename)
    ELSE ParseTimestampParent(filename, dtype)

\* ------------------------------------------------------------- images
Fields == {"LAT", "LONG", "UTM_X", "UTM_Y", "ALTITUDE_EST", "HEADING",
           "PITCH", "ROLL"}

\* {"FILENAME": filename, "TIMESTAMP": timestamp}: no other key yet
NewImage(filename, timestamp) ==
    [FILENAME |-> filename, TIMESTAMP |-> timestamp, LAT |-> Missing,
     LONG |-> Missing, UTM_X |-> Missing, UTM_Y |-> Missing,
     ALTITUDE_EST |-> Missing, HEADING |-> Missing, PITCH |-> Missing,
     ROLL |-> Missing]

\* The loop of read_image_filenames over os.listdir, from entry i on.  A
\* file that is no image is passed over; a name that yields no timestamp is
\* not appended; an exception leaving the parser leaves the loop.
RECURSIVE ReadImages(_, _, _, _, _, _)
ReadImages(s, dtype, files, i, images, printed) ==
    IF i > Len(files)
    THEN [images |-> images, printed |-> printed, raised |-> FALSE]
    ELSE IF ~files[i].image
    THEN ReadImages(s, dtype, files, i + 1, images, printed)
    ELSE LET r == parse_timestamp_from_filename(s, files[i].name, dtype)
             p == IF r.printed THEN printed \cup {files[i].name} ELSE printed
         IN  IF r.value.k = "raise"
             THEN [images |-> images, printed |-> p, raised |-> TRUE]
             ELSE IF r.value.k = "num"
             THEN ReadImages(s, dtype, files, i + 1,
                             Append(images, NewImage(files[i].name, r.value)), p)
             ELSE ReadImages(s, dtype, files, i + 1, images, p)

\* ------------------------------------------------------------ telemetry
Columns == {"TIME", "LAT", "LONG", "DEPTH", "HEADING", "PITCH", "ROLL"}

\* {headers[i]: row[i] for i in range(len(row))}: the cells as read, under
\* the header names; a column the row does not reach is no key of the dict
RowDict(headers, row) ==
    [c \in Columns |->
        IF \E i \in 1..Len(row) : headers[i] = c
        THEN row[CHOOSE i \in 1..Len(row) : headers[i] = c]
        ELSE Missing]

\* read_tsv_data: any exception (the file cannot be opened, there is no
\* header line, a row is longer than the header) ends the run
ReadTsv(file) ==
    IF file.status # "ok" \/ \E r \in 1..Len(file.rows) :
                                 Len(file.rows[r]) > Len(file.headers)
    THEN [rows |-> <<>>, raised |-> TRUE]
    ELSE [rows |-> [r \in 1..Len(file.rows) |->
                        RowDict(file.headers, file.rows[r])],
          raised |-> FALSE]

\* ----------------------------------------------------------- projection
DigitChars == <<"0", "1", "2", "3", "4", "5", "6", "7", "8", "9">>

IsDigitChar(c) == \E i \in 1..10 : DigitChars[i] = c

DigitVal(c) == (CHOOSE i \in 1..10 : DigitChars[i] = c) - 1

RECURSIVE ToInt(_)
ToInt(chars) ==
    IF chars = <<>> THEN 0
    ELSE 10 * ToInt(SubSeq(chars, 1, Len(chars) - 1))
         + DigitVal(chars[Len(chars)])

\* utm_zone[:-1]
AllButLast(chars) ==
    IF chars = <<>> THEN <<>> ELSE SubSeq(chars, 1, Len(chars) - 1)

\* pyproj takes "+zone=" followed by a number from 1 to 60
ZoneAccepted(chars) ==
    /\ chars # <<>>
    /\ \A i \in 1..Len(chars) : IsDigitChar(chars[i])
    /\ ToInt(chars) \in 1..60

\* The transverse Mercator projection of pyproj, linearised: easting 500000
\* on the central meridian of the zone, northing 0 on the equator, and
\* "+south" adds the false northing 10000000.
Proj(zone, south, lon, lat) ==
    <<Num(500000 + 100000 * (lon - (6 * zone - 183))),
      Num(110000 * lat + (IF south THEN 10000000 ELSE 0))>>

\* convert_to_utm: the projection string holds the zone without its last
\* character and never "+south"; every exception gives (None, None)
convert_to_utm(lat, lon, zone) ==
    IF lat.k = "none" \/ lon.k = "none" THEN <<None, None>>
    ELSE IF ZoneAccepted(AllButLast(zone)) /\ lat.k = "num" /\ lon.k = "num"
    THEN Proj(ToInt(AllButLast(zone)), FALSE, lon.v, lat.v)
    ELSE <<None, None>>

\* ---------------------------------------------------- estimate_location
\* timedelta(seconds=2)
Tolerance == 2

\* abs(row["TIME"] - image["TIMESTAMP"])
TimeDiff(row, image) == AbsDiff(row["TIME"], image["TIMESTAMP"])

InWindow(d) == d <= Tolerance

\* [row for row in data_rows if abs(...) <= timedelta(seconds=2)], as the
\* positions of the rows kept, in the order of data_rows
RECURSIVE Relevant(_, _, _)
Relevant(image, rows, j) ==
    IF j > Len(rows) THEN <<>>
    ELSE IF InWindow(TimeDiff(rows[j], image).v)
    THEN <<j>> \o Relevant(image, rows, j + 1)
    ELSE Relevant(image, rows, j + 1)

\* a running minimum that a key equal to it replaces
KeyLessOrEqual(a, b) == a <= b

KeyLess(a, b) == a < b

\* min(relevant_data_rows, key=...): the running minimum is replaced only by
\* a strictly smaller key, so the first of equal keys is returned
RECURSIVE MinFrom(_, _, _, _, _)
MinFrom(image, rows, rel, j, best) ==
    IF j > Len(rel) THEN best
    ELSE MinFrom(image, rows, rel, j + 1,
                 IF KeyLess(TimeDiff(rows[rel[j]], image).v,
                            TimeDiff(rows[best], image).v)
                 THEN rel[j] ELSE best)

ClosestMatch(image, rows) ==
    LET rel == Relevant(image, rows, 1) IN
    IF rel = <<>> THEN 0 ELSE MinFrom(image, rows, rel, 2, rel[1])

\* 40 if image["FILENAME"].startswith("P") else 0
base_pitch(image) == IF StartsWithP(image["FILENAME"]) THEN 40 ELSE 0

\* base_pitch + tsv_pitch, with tsv_pitch = closest_match.get("PITCH", 0)
PitchOf(image, row) ==
    Add(Num(base_pitch(image)), GetDefault(row, "PITCH", Num(0)))

Matched(image, row, zone) ==
    LET lat == Get(row, "LAT")
        lon == Get(row, "LONG")
        utm == convert_to_utm(lat, lon, zone)
    IN  [image EXCEPT !["LAT"] = lat, !["LONG"] = lon,
                      !["UTM_X"] = utm[1], !["UTM_Y"] = utm[2],
                      !["ALTITUDE_EST"] = Get(row, "DEPTH"),
                      !["HEADING"] = Get(row, "HEADING"),
                      !["PITCH"] = PitchOf(image, row),
                      !["ROLL"] = Get(row, "ROLL")]

Unmatched(image) ==
    [image EXCEPT !["LAT"] = None, !["LONG"] = None, !["UTM_X"] = None,
                  !["UTM_Y"] = None, !["ALTITUDE_EST"] = None,
                  !["HEADING"] = None,
                  !["PITCH"] = IF StartsWithP(image["FILENAME"])
                               THEN Num(40) ELSE None,
                  !["ROLL"] = None]

\* The loop of estimate_location from image i on.  images is updated in
\* place, so what was updated before an exception stays updated; matches
\* holds, per image reached, the position of its closest_match (0: none).
RECURSIVE EstimateFrom(_, _, _, _, _)
EstimateFrom(images, rows, zone, i, matches) ==
    IF i > Len(images)
    THEN [images |-> images, matches |-> matches, raised |-> FALSE]
    ELSE IF \E j \in 1..Len(rows) : TimeDiff(rows[j], images[i]).k = "raise"
    THEN [images |-> images, matches |-> matches, raised |-> TRUE]
    ELSE LET m == ClosestMatch(images[i], rows) IN
         IF m = 0
         THEN EstimateFrom([images EXCEPT ![i] = Unmatched(images[i])],
                           rows, zone, i + 1, Append(matches, 0))
         ELSE IF PitchOf(images[i], rows[m]).k = "raise"
         THEN [images |-> images, matches |-> Append(matches, m),
               raised |-> TRUE]
         ELSE EstimateFrom([images EXCEPT
                               ![i] = Matched(images[i], rows[m], zone)],
                           rows, zone, i + 1, Append(matches, m))

\* -------------------------------------------------- generate_flight_log
HeaderLine(cols) == [kind |-> "header", name |-> <<>>, cols |-> cols]

RowLine(name, cols) == [kind |-> "row", name |-> name, cols |-> cols]

\* what a destination that exists before the run holds
OldLine == [kind |-> "old", name |-> <<>>, cols |-> <<>>]

Absent == [exists |-> FALSE, lines |-> <<>>]

Existing == [exists |-> TRUE, lines |-> <<OldLine>>]

\* parent side: one line per image, whatever its fields hold
ParentHeader(cs) ==
    IF cs = "UTM"
    THEN HeaderLine(<<Word("Name"), Word("X (East)"), Word("Y (North)"),
                      Word("Alt"), Word("Yaw"), Word("Pitch"), Word("Roll")>>)
    ELSE HeaderLine(<<Word("Name"), Word("Lat"), Word("Long"),
                      Word("Alt"), Word("Yaw"), Word("Pitch"), Word("Roll")>>)

ParentLine(image, cs) ==
    LET g(key) == PyStr(GetDefault(image, key, Empty)) IN
    RowLine(image["FILENAME"],
            <<IF cs = "UTM" THEN g("UTM_X") ELSE g("LAT"),
              IF cs = "UTM" THEN g("UTM_Y") ELSE g("LONG"),
              g("ALTITUDE_EST"), g("HEADING"), g("PITCH"), g("ROLL")>>)

ParentLines(images, cs) ==
    <<ParentHeader(cs)>> \o [i \in 1..Len(images) |-> ParentLine(images[i], cs)]

\* HEAD side: a line only for an image whose two coordinates are both true
\* values; the pitch and the focal length come from camera_settings under
\* image.get("CAMERA_TYPE", ""), a key no image carries, hence "N/A"
HeadHeader(cs) ==
    IF cs = "UTM"
    THEN HeaderLine(<<Word("Name"), Word("X (East)"), Word("Y (North)"),
                      Word("Alt"), Word("Yaw"), Word("Pitch"), Word("Roll"),
                      Word("FocalLength")>>)
    ELSE HeaderLine(<<Word("Name"), Word("Lat"), Word("Long"),
                      Word("Alt"), Word("Yaw"), Word("Pitch"), Word("Roll"),
                      Word("FocalLength")>>)

HeadWrites(image, cs) ==
    IF cs = "UTM"
    THEN Truthy(Get(image, "UTM_X")) /\ Truthy(Get(image, "UTM_Y"))
    ELSE Truthy(Get(image, "LAT")) /\ Truthy(Get(image, "LONG"))

HeadLine(image, cs) ==
    LET g(key) == PyStr(GetDefault(image, key, NA)) IN
    RowLine(image["FILENAME"],
            <<IF cs = "UTM" THEN PyStr(image["UTM_X"]) ELSE PyStr(image["LAT"]),
              IF cs = "UTM" THEN PyStr(image["UTM_Y"]) ELSE PyStr(image["LONG"]),
              g("ALTITUDE_EST"), g("HEADING"), PyStr(NA), g("ROLL"),
              PyStr(NA)>>)

RECURSIVE HeadRows(_, _, _)
HeadRows(images, cs, i) ==
    IF i > Len(images) THEN <<>>
    ELSE IF HeadWrites(images[i], cs)
    THEN <<HeadLine(images[i], cs)>> \o HeadRows(images, cs, i + 1)
    ELSE HeadRows(images, cs, i + 1)

HeadLines(images, cs) == <<HeadHeader(cs)>> \o HeadRows(images, cs, 1)

\* generate_kml: a point for every image whose LAT and LONG are true values
RECURSIVE KmlPoints(_, _)
KmlPoints(images, i) ==
    IF i > Len(images) THEN <<>>
    ELSE IF Truthy(Get(images[i], "LAT")) /\ Truthy(Get(images[i], "LONG"))
    THEN <<images[i]["FILENAME"]>> \o KmlPoints(images, i + 1)
    ELSE KmlPoints(images, i + 1)

\* --------------------------------------------------------------- inputs
\* sequences of length at most n over S
SeqsUpTo(S, n) == UNION {[1..m -> S] : m \in 0..n}

Distinct(q) == \A i, j \in 1..Len(q) : i # j => q[i] # q[j]

\* what the user may answer to the zone prompt: nothing, "17N", "17S"
Zones == {<<>>, <<"1", "7", "N">>, <<"1", "7", "S">>}

\* "UTM" if utm_zone.strip() else "GPS"
CoordinateSystem(zone) == IF zone # <<>> THEN "UTM" ELSE "GPS"

\* Directory entries: a name and whether the file decodes as an image.
FileNames ==
    {<<Seg("P", 0), Seg("D14x", 1)>>,  \* P211C7655_20231102013334.jpg
     <<Seg("C", 0), Seg("D14x", 1)>>,  \* C211C7655_20231102013334.jpg
     <<Seg("ISO", 1), Seg("X", 0)>>,   \* 20231102T013334Z_0008.png
     <<Seg("D14", 1), Seg("X", 0)>>,   \* 20231102013334_0008.png
     <<Seg("P", 0)>>,                  \* P211C7655.jpg
     <<Seg("P", 0), Seg("D8x", 0)>>,   \* P211C7655_20231102.jpg
     <<Seg("P", 0), Seg("X", 0)>>,     \* P211C7655_0008.png
     <<Seg("D8", 0), Seg("X", 0)>>}    \* 20231102_0008.png

DirEntries ==
    {[name |-> n, image |-> TRUE] : n \in FileNames}
        \cup {[name |-> <<Seg("X", 0)>>, image |-> FALSE]}

\* os.listdir: every name once, in any order
Listings == {q \in SeqsUpTo(DirEntries, MaxFiles) : Distinct(q)}

\* The telemetry file: a TIME, a DEPTH and perhaps a PITCH column; cells
\* are text; a row may be shorter or longer than the header.
TsvRows ==
    {<<Str(1), d>> : d \in {Str(1), Str(-1)}}
        \cup {<<Str(1), d, p>> : d \in {Str(1), Str(-1)}, p \in {Str(1), Empty}}
        \cup {<<Str(1), Str(1), Str(1), Str(1)>>}

TsvFiles ==
    {[status |-> st, headers |-> <<>>, rows |-> <<>>] :
        st \in {"unreadable", "empty"}}
    \cup {[status |-> "ok", headers |-> h, rows |-> r] :
            h \in {<<"TIME", "DEPTH">>, <<"TIME", "DEPTH", "PITCH">>},
            r \in SeqsUpTo(TsvRows, MaxTsvRows)}

\* ---------------------------------------------------------------- main
\* pc is the function main is about to call, "done" after the last one,
\* "exit1" after sys.exit(1), and the name of the exception after one that
\* nothing caught ended the run.
Init ==
    /\ side \in {"HEAD", "parent"}
    /\ data_type \in (IF side = "HEAD" THEN {"-"} ELSE {"Zeuss", "WCA"})
    /\ utm_zone \in Zones
    /\ coordinate_system = CoordinateSystem(utm_zone)
    /\ tsv_file \in TsvFiles
    /\ image_files \in Listings
    /\ flight_log \in {Absent, Existing}
    /\ kml_file = [exists |-> FALSE, points |-> <<>>]
    /\ data_rows = <<>>
    /\ image_data = <<>>
    /\ closest_match = <<>>
    /\ reported = {}
    /\ pc = "read_tsv"

read_tsv_data ==
    /\ pc = "read_tsv"
    /\ LET r == ReadTsv(tsv_file) IN
        /\ data_rows' = r.rows
        /\ pc' = IF r.raised THEN "exit1" ELSE "read_images"
    /\ UNCHANGED <<side, data_type, utm_zone, coordinate_system, tsv_file,
                   image_files, image_data, closest_match, reported,
                   flight_log, kml_file>>

read_image_filenames ==
    /\ pc = "read_images"
    /\ LET r == ReadImages(side, data_type, image_files, 1, <<>>, {}) IN
        /\ image_data' = IF r.raised THEN <<>> ELSE r.images
        /\ reported' = r.printed
        /\ pc' = IF r.raised THEN "IndexError"
                 ELSE IF side = "HEAD" THEN "flight_log" ELSE "estimate"
    /\ UNCHANGED <<side, data_type, utm_zone, coordinate_system, tsv_file,
                   image_files, data_rows, closest_match, flight_log,
                   kml_file>>

estimate_location ==
    /\ pc = "estimate"
    /\ LET r == EstimateFrom(image_data, data_rows, utm_zone, 1, <<>>) IN
        /\ image_data' = r.images
        /\ closest_match' = r.matches
        /\ pc' = IF r.raised THEN "TypeError" ELSE "flight_log"
    /\ UNCHANGED <<side, data_type, utm_zone, coordinate_system, tsv_file,
                   image_files, data_rows, reported, flight_log, kml_file>>

\* An existing destination: the parent side leaves with sys.exit(1), the
\* HEAD side returns to main, which goes on to generate_kml.
generate_flight_log ==
    /\ pc = "flight_log"
    /\ IF flight_log.exists
       THEN /\ UNCHANGED flight_log
            /\ pc' = IF side = "HEAD" THEN "kml" ELSE "exit1"
       ELSE /\ flight_log' =
                 [exists |-> TRUE,
                  lines |-> IF side = "HEAD"
                            THEN HeadLines(image_data, coordinate_system)
                            ELSE ParentLines(image_data, coordinate_system)]
            /\ pc' = IF side = "HEAD" THEN "kml" ELSE "done"
    /\ UNCHANGED <<side, data_type, utm_zone, coordinate_system, tsv_file,
                   image_files, data_rows, image_data, closest_match,
                   reported, kml_file>>

generate_kml ==
    /\ pc = "kml"
    /\ kml_file' = [exists |-> TRUE, points |-> KmlPoints(image_data, 1)]
    /\ pc' = "done"
    /\ UNCHANGED <<side, data_type, utm_zone, coordinate_system, tsv_file,
                   image_files, data_rows, image_data, closest_match,
                   reported, flight_log>>

Next ==
    \/ read_tsv_data
    \/ read_image_filenames
    \/ estimate_location
    \/ generate_flight_log
    \/ generate_kml

Spec == Init /\ [][Next]_vars

\* --------------------------- estimate_location and generate_flight_log,
\* called on telemetry samples whose fields are Python values
\* A sample: its TIME is a datetime; the coordinates are numbers or None;
\* the PITCH is a number, an empty cell, or no key at all.
SampleKinds ==
    {[LAT |-> Num(-3), LONG |-> Num(-80), PITCH |-> Num(5)],
     [LAT |-> Num(0), LONG |-> Num(0), PITCH |-> Missing],
     [LAT |-> None, LONG |-> None, PITCH |-> Empty]}

Samples ==
    {[TIME |-> Num(t), LAT |-> s.LAT, LONG |-> s.LONG, DEPTH |-> Num(-7),
      HEADING |-> Num(90), PITCH |-> s.PITCH, ROLL |-> Num(1)] :
        t \in 0..MaxTime, s \in SampleKinds}

\* P211C7655_<second 1>.jpg and C211C7655_<second 0>.jpg
Images ==
    {NewImage(<<Seg("P", 0), Seg("D14x", 1)>>, Num(1)),
     NewImage(<<Seg("C", 0), Seg("D14x", 0)>>, Num(0))}

InitCore ==
    /\ side = "parent"
    /\ data_type = "WCA"
    /\ utm_zone \in Zones
    /\ coordinate_system = CoordinateSystem(utm_zone)
    /\ tsv_file = [status |-> "ok", headers |-> <<>>, rows |-> <<>>]
    /\ image_files = <<>>
    /\ flight_log = Absent
    /\ kml_file = [exists |-> FALSE, points |-> <<>>]
    /\ data_rows \in SeqsUpTo(Samples, MaxRows)
    /\ image_data \in SeqsUpTo(Images, MaxImages)
    /\ closest_match = <<>>
    /\ reported = {}
    /\ pc = "estimate"

NextCore ==
    \/ estimate_location
    \/ generate_flight_log

SpecCore == InitCore /\ [][NextCore]_vars

\* ---------------------------------------------------------------- claims
\* seconds between sample j and image k
Gap(j, k) == Abs(data_rows[j]["TIME"].v - image_data[k]["TIMESTAMP"].v)

\* image k was given sample closest_match[k]
HasMatch(k) == k <= Len(closest_match) /\ closest_match[k] # 0

\* the flight log holds a data row under the name of image k
HasRow(k) ==
    \E l \in 1..Len(flight_log.lines) :
        /\ flight_log.lines[l].kind = "row"
        /\ flight_log.lines[l].name = image_data[k]["FILENAME"]

\* C1: the sample estimate_location gives an image is at most 2 seconds
\* from the image's timestamp, and no sample within 2 seconds of it is
\* strictly nearer.
C1_NearestInWindow ==
    \A k \in 1..Len(image_data) :
        HasMatch(k) =>
            /\ Gap(closest_match[k], k) <= 2
            /\ \A j \in 1..Len(data_rows) :
                   Gap(j, k) <= 2 => Gap(j, k) >= Gap(closest_match[k], k)

\* an image was matched while another sample in its window was farther away
C1_Witness ==
    \E k \in 1..Len(image_data) :
        /\ HasMatch(k)
        /\ image_data[k]["ALTITUDE_EST"].k = "num"
        /\ \E j \in 1..Len(data_rows) :
               Gap(j, k) <= 2 /\ Gap(j, k) > Gap(closest_match[k], k)

\* C8: among the samples that share the smallest gap to an image, the one
\* estimate_location gives it is the first in the order of data_rows.
C8_FirstOfTies ==
    \A k \in 1..Len(image_data) :
        HasMatch(k) =>
            \A j \in 1..Len(data_rows) :
                Gap(j, k) = Gap(closest_match[k], k) => closest_match[k] <= j

\* an image was matched while a later sample was exactly as near
C8_Witness ==
    \E k \in 1..Len(image_data) :
        /\ HasMatch(k)
        /\ image_data[k]["ALTITUDE_EST"].k = "num"
        /\ \E j \in 1..Len(data_rows) :
               /\ j > closest_match[k]
               /\ Gap(j, k) = Gap(closest_match[k], k)
               /\ data_rows[j]["TIME"] # data_rows[closest_match[k]]["TIME"]

\* C2: an image with no sample within 2 seconds of its timestamp has no
\* data row in the flight log (the telemetry holding at least one sample).
C2_UnmatchedHasNoRow ==
    \A k \in 1..Len(image_data) :
        (/\ data_rows # <<>>
         /\ \A j \in 1..Len(data_rows) : Gap(j, k) > 2)
            => ~HasRow(k)

\* C3: the pitch recorded for a matched image is the pitch offset of its
\* camera (40 for a name starting with "P", otherwise 0) plus the pitch of
\* the matched sample, an absent pitch counting as 0.
C3_PitchIsOffsetPlusTelemetry ==
    \A k \in 1..Len(image_data) :
        HasMatch(k) =>
            LET p == data_rows[closest_match[k]]["PITCH"]
                offset == IF image_data[k]["FILENAME"][1].kind = "P"
                          THEN 40 ELSE 0
            IN  image_data[k]["PITCH"] =
                    Num(offset + (IF p.k = "num" THEN p.v ELSE 0))

\* C4: a destination that exists keeps its contents, and the run that finds
\* it ends there: it neither goes on to further output nor completes.
C4_ExistingDestinationEndsRun ==
    (\E l \in 1..Len(flight_log.lines) : flight_log.lines[l] = OldLine)
        => /\ flight_log = Existing
           /\ pc \notin {"kml", "done"}
           /\ ~kml_file.exists

\* C5: no two lines of the flight log are the same (the telemetry holding
\* at least one sample).
C5_NoTwoLinesAlike ==
    data_rows # <<>> =>
        \A a, b \in 1..Len(flight_log.lines) :
            a # b => flight_log.lines[a] # flight_log.lines[b]

\* both coordinates of image k, for the coordinate system chosen, are there
Usable(k) ==
    IF coordinate_system = "UTM"
    THEN image_data[k]["UTM_X"].k = "num" /\ image_data[k]["UTM_Y"].k = "num"
    ELSE image_data[k]["LAT"].k \in {"num", "str"}
         /\ image_data[k]["LONG"].k \in {"num", "str"}

\* C6: once the flight log is written, an image has a data row exactly when
\* both its coordinates are there; a coordinate of 0 is there (the telemetry
\* holding at least one sample).
C6_RowIffUsableCoordinate ==
    (pc = "done" /\ flight_log.exists /\ data_rows # <<>>) =>
        \A k \in 1..Len(image_data) : HasRow(k) <=> Usable(k)

\* names that hold no timestamp under any rule: no "_", a date of eight
\* digits, no digits at all
Unparseable(name) ==
    name \in {<<Seg("P", 0)>>, <<Seg("P", 0), Seg("D8x", 0)>>,
              <<Seg("P", 0), Seg("X", 0)>>}

\* C7: a name without a readable timestamp never ends the run; once the
\* directory is read, every such image is reported and left out.
C7_BadNameIsSkipped ==
    /\ pc # "IndexError"
    /\ pc \notin {"read_tsv", "read_images", "exit1"} =>
           \A f \in 1..Len(image_files) :
               (image_files[f].image /\ Unparseable(image_files[f].name)) =>
                   /\ image_files[f].name \in reported
                   /\ \A k \in 1..Len(image_data) :
                          image_data[k]["FILENAME"] # image_files[f].name

\* the DEPTH cell of row r of the telemetry file
DepthCell(r) ==
    tsv_file.rows[r][CHOOSE i \in 1..Len(tsv_file.headers) :
                         tsv_file.headers[i] = "DEPTH"]

\* C9: the depth held for each loaded sample is the negated absolute value
\* of the number in its DEPTH cell.
C9_DepthIsNegatedMagnitude ==
    \A r \in 1..Len(data_rows) :
        (Len(tsv_file.rows) >= r) =>
            data_rows[r]["DEPTH"] = Num(-Abs(DepthCell(r).v))

\* C10: with a southern zone, the northing of a matched image is 10000000
\* less than the northing of the same place under the northern zone of the
\* same number.
C10_SouthernNorthingOffset ==
    \A k \in 1..Len(image_data) :
        (/\ HasMatch(k)
         /\ image_data[k]["LAT"].k = "num"
         /\ utm_zone # <<>>
         /\ utm_zone[Len(utm_zone)] = "S")
            => /\ image_data[k]["UTM_Y"].k = "num"
               /\ image_data[k]["UTM_Y"].v =
                      convert_to_utm(image_data[k]["LAT"],
                                     image_data[k]["LONG"],
                                     AllButLast(utm_zone) \o <<"N">>)[2].v
                          - 10000000

====
